---- MODULE Spec2Model ----
(***************************************************************************)
(* Fact_Checker: the claim verification pipeline (src/src/verifier.py) and *)
(* the claim extraction pipeline (src/src/claim_extractor.py).             *)
(*                                                                         *)
(* Python values are modelled as tagged records: a str is Str(s) with s a  *)
(* TLA+ string, a float or int is Num(n) with n in hundredths (0.4 is 40), *)
(* None is Null, a list is List(items), a dict is Dict(o) with o a record. *)
(* A text returned by the reasoning engine is a sequence of lines, each a  *)
(* record saying what the line holds (a fence marker, a complete JSON      *)
(* value, prose, prose with an embedded {...} object).                     *)
(***************************************************************************)
EXTENDS Integers, Sequences, FiniteSets, TLC

VARIABLES
    \* verify_claims (src/src/verifier.py)
    claims,             \* the argument `claims`
    progress_callback,  \* TRUE when a callback is provided
    idx,                \* the loop variable i (0-based)
    pc,                 \* position in the loop
    results,            \* the list `results`
    search_results,     \* verify_single_claim: the evidence block
    sources,            \* verify_single_claim: the list `sources`
    calls,              \* log of the external calls and appends, in order
    returned,           \* what the caller of verify_claims received
    \* extract_claims (src/src/claim_extractor.py)
    pages,              \* the argument `pages`, each page by its text length
    combined_len,       \* len(combined_text)
    chunks,             \* the list `chunks`, each chunk by the offsets it holds
    chunk_idx,          \* the loop variable chunk_idx (0-based)
    all_claims,         \* the list `all_claims`
    epc,                \* position in extract_claims
    submitted,          \* log of the chunks submitted to the engine, in order
    emitted,            \* log of what the engine answered for each chunk
    \* generate_search_query (src/src/verifier.py)
    q_claim,            \* the argument `claim`
    q_query,            \* the returned query
    q_pc,               \* "call" before the call, "done" after it
    \* parse_verdict (src/src/verifier.py)
    v_content,          \* the argument `content`
    v_verdict,          \* the returned dict, or the exception raised
    v_pc,               \* "call" before the call, "done" after it
    \* extract_sources, one record (src/src/verifier.py)
    s_record,           \* a record of the search response
    s_source,           \* the Source made of it
    s_pc                \* "call" before the call, "done" after it

verifyVars == <<claims, progress_callback, idx, pc, results, search_results,
                sources, calls, returned>>
extractVars == <<pages, combined_len, chunks, chunk_idx, all_claims, epc,
                 submitted, emitted>>
queryVars == <<q_claim, q_query, q_pc>>
verdictVars == <<v_content, v_verdict, v_pc>>
sourceVars == <<s_record, s_source, s_pc>>
vars == <<verifyVars, extractVars, queryVars, verdictVars, sourceVars>>

(***************************************************************************)
(* Bounds of the model.                                                    *)
(***************************************************************************)
\* claims handed to verify_claims
MaxClaims == 2
\* pages handed to extract_claims
MaxPages == 2
\* longest claim text handed to generate_search_query
MaxTextLen == 250

(***************************************************************************)
(* Python values.                                                          *)
(***************************************************************************)
Str(s) == [t |-> "str", s |-> s]
Num(n) == [t |-> "num", n |-> n]
Bool(b) == [t |-> "bool", b |-> b]
Null == [t |-> "null"]
List(items) == [t |-> "list", items |-> items]
Dict(o) == [t |-> "dict", o |-> o]

Min(a, b) == IF a <= b THEN a ELSE b

\* s[a:b] of a Python str, 0 <= a <= b
StrSlice(s, a, b) ==
    IF a >= Len(s) \/ b <= a THEN "" ELSE SubSeq(s, a + 1, Min(b, Len(s)))

\* l[a:b] of a Python list, 0 <= a <= b
ListSlice(l, a, b) ==
    IF a >= Len(l) \/ b <= a THEN <<>> ELSE SubSeq(l, a + 1, Min(b, Len(l)))

\* d.get(k, default) of a Python dict
DictGet(d, k, default) == IF k \in DOMAIN d THEN d[k] ELSE default

StartsWith(s, prefix) ==
    Len(s) >= Len(prefix) /\ SubSeq(s, 1, Len(prefix)) = prefix

RECURSIVE Repeat(_, _)
Repeat(s, n) == IF n = 0 THEN "" ELSE s \o Repeat(s, n - 1)

(***************************************************************************)
(* Program constants.                                                      *)
(***************************************************************************)
QueryLimit == 200
LabelLimit == 50
SourceLimit == 3
SnippetLimit == 200

FinancialSuffix == " current data 2024 2025"
StatisticSuffix == " latest statistics 2024"
NoResultsSentinel == "No search results found."
Ellipsis == "..."

\* VerificationStatus
VERIFIED == "Verified"
INACCURATE == "Inaccurate"
FALSE_ == "False"
PENDING == "Pending"

(***************************************************************************)
(* generate_search_query                                                   *)
(***************************************************************************)
\* the suffix is appended first and the whole query is cut
generate_search_query_cut_last(claim) ==
    LET query == IF claim.claim_type = "financial"
                 THEN claim.text \o FinancialSuffix
                 ELSE IF claim.claim_type = "statistic"
                 THEN claim.text \o StatisticSuffix
                 ELSE claim.text
    IN  IF Len(query) > QueryLimit THEN StrSlice(query, 0, QueryLimit)
        ELSE query

generate_search_query(claim) ==
    LET query == IF Len(claim.text) > QueryLimit
                 THEN StrSlice(claim.text, 0, QueryLimit)
                 ELSE claim.text
    IN  IF claim.claim_type = "financial" THEN query \o FinancialSuffix
        ELSE IF claim.claim_type = "statistic" THEN query \o StatisticSuffix
        ELSE query

(***************************************************************************)
(* format_search_results, extract_sources.  A search response is a record  *)
(* that may lack the field "results"; a result record may lack any of      *)
(* "title", "url", "content".                                              *)
(***************************************************************************)
RECURSIVE JoinLines(_)
\* "\n".join(parts)
JoinLines(parts) ==
    IF parts = <<>> THEN ""
    ELSE IF Len(parts) = 1 THEN parts[1]
    ELSE parts[1] \o "\n" \o JoinLines(Tail(parts))

\* enumerate(results) without its start: the entries are numbered from 0
FormatEntryFromZero(i, result) ==
    "\nSource " \o ToString(i - 1) \o ": " \o DictGet(result, "title", "Unknown")
    \o "\nURL: " \o DictGet(result, "url", "N/A")
    \o "\nContent: " \o DictGet(result, "content", "No content available")
    \o "\n"

FormatEntry(i, result) ==
    "\nSource " \o ToString(i) \o ": " \o DictGet(result, "title", "Unknown")
    \o "\nURL: " \o DictGet(result, "url", "N/A")
    \o "\nContent: " \o DictGet(result, "content", "No content available")
    \o "\n"

format_search_results(response) ==
    LET res == DictGet(response, "results", <<>>)
    IN  IF res = <<>> THEN NoResultsSentinel
        ELSE JoinLines([i \in 1..Len(res) |-> FormatEntry(i, res[i])])

MakeSource(result) ==
    [title   |-> DictGet(result, "title", "Unknown"),
     url     |-> DictGet(result, "url", ""),
     snippet |-> StrSlice(DictGet(result, "content", ""), 0, SnippetLimit)
                 \o Ellipsis]

\* results[1:4] in place of results[:3]
extract_sources_skip_first(response) ==
    LET res == DictGet(response, "results", <<>>)
        top == ListSlice(res, 1, SourceLimit + 1)
    IN  [i \in 1..Len(top) |-> MakeSource(top[i])]

extract_sources(response) ==
    LET res == DictGet(response, "results", <<>>)
        top == ListSlice(res, 0, SourceLimit)
    IN  [i \in 1..Len(top) |-> MakeSource(top[i])]

(***************************************************************************)
(* parse_verdict.  The engine's text is a sequence of lines.               *)
(***************************************************************************)
FenceLine == [kind |-> "fence"]                \* a line starting with ```
JsonLine(v) == [kind |-> "json", val |-> v]    \* one complete JSON value
ProseLine == [kind |-> "prose"]                \* text holding no brace
ProseObjLine(v) == [kind |-> "prose_obj", val |-> v]  \* prose around {...}

\* str.upper(), on the letters a status can hold
UpperMap ==
    [a |-> "A", b |-> "B", c |-> "C", d |-> "D", e |-> "E", f |-> "F",
     g |-> "G", h |-> "H", i |-> "I", j |-> "J", k |-> "K", l |-> "L",
     m |-> "M", n |-> "N", o |-> "O", p |-> "P", q |-> "Q", r |-> "R",
     s |-> "S", t |-> "T", u |-> "U", v |-> "V", w |-> "W", x |-> "X",
     y |-> "Y", z |-> "Z"]

RECURSIVE Upper(_)
Upper(s) ==
    IF s = "" THEN ""
    ELSE LET c == SubSeq(s, 1, 1)
         IN  (IF c \in DOMAIN UpperMap THEN UpperMap[c] ELSE c)
             \o Upper(SubSeq(s, 2, Len(s)))

\* type(v).__name__
TypeName(v) ==
    CASE v.t = "str"  -> "str"
      [] v.t = "num"  -> "float"
      [] v.t = "bool" -> "bool"
      [] v.t = "null" -> "NoneType"
      [] v.t = "list" -> "list"
      [] v.t = "dict" -> "dict"

\* the strings float() accepts, among those the model uses
FloatLiterals == [x \in {"0.7", "1"} |-> IF x = "0.7" THEN 70 ELSE 100]

\* float(v): [ok |-> TRUE, n |-> hundredths] or [ok |-> FALSE, msg |-> ...]
Float(v) ==
    CASE v.t = "num"  -> [ok |-> TRUE, n |-> v.n]
      [] v.t = "bool" -> [ok |-> TRUE, n |-> IF v.b THEN 100 ELSE 0]
      [] v.t = "str"  ->
            IF v.s \in DOMAIN FloatLiterals
            THEN [ok |-> TRUE, n |-> FloatLiterals[v.s]]
            ELSE [ok |-> FALSE,
                  msg |-> "could not convert string to float: '" \o v.s \o "'"]
      [] OTHER ->
            [ok |-> FALSE,
             msg |-> "float() argument must be a string or a real number, not '"
                     \o TypeName(v) \o "'"]

\* lines 208-210: drop the fence lines of a text that starts with a fence
StripFence(lines) ==
    IF lines # <<>> /\ lines[1].kind = "fence"
    THEN IF lines[Len(lines)].kind = "fence"
         THEN ListSlice(lines, 1, Len(lines) - 1)
         ELSE ListSlice(lines, 1, Len(lines))
    ELSE lines

\* json.loads(text): the text is valid JSON iff it is one line holding one
\* complete JSON value
JsonLoads(lines) ==
    IF Len(lines) = 1 /\ lines[1].kind = "json"
    THEN [ok |-> TRUE, val |-> lines[1].val]
    ELSE [ok |-> FALSE]

HasBrace(line) ==
    \/ line.kind = "prose_obj"
    \/ line.kind = "json" /\ line.val.t = "dict"

\* lines 216-224: re.search(r'\{[\s\S]*\}') spans the first "{" to the last
\* "}"; the span parses iff a single object lies in it
RegexFallback(lines) ==
    LET braced == {i \in 1..Len(lines) : HasBrace(lines[i])}
    IN  IF Cardinality(braced) = 1
        THEN (CHOOSE i \in braced : TRUE) \* the only one
        ELSE 0

LoadData(lines) ==
    LET direct == JsonLoads(lines)
        at == RegexFallback(lines)
    IN  IF direct.ok THEN direct.val
        ELSE IF at # 0 THEN lines[at].val
        ELSE Dict(<<>>)

MapStatus(status_str) ==
    CASE status_str = "VERIFIED"   -> VERIFIED
      [] status_str = "INACCURATE" -> INACCURATE
      [] status_str = "FALSE"      -> FALSE_
      [] OTHER                     -> FALSE_

Raise(msg) == [raised |-> TRUE, msg |-> msg]

\* lines 226-241, given the loaded data
BuildVerdict(data) ==
    IF data.t # "dict"
    THEN Raise("'" \o TypeName(data) \o "' object has no attribute 'get'")
    ELSE LET st == DictGet(data.o, "status", Str("FALSE"))
             conf == Float(DictGet(data.o, "confidence", Num(50)))
         IN  IF st.t # "str"
             THEN Raise("'" \o TypeName(st) \o "' object has no attribute 'upper'")
             ELSE IF ~conf.ok THEN Raise(conf.msg)
             ELSE [raised       |-> FALSE,
                   status       |-> MapStatus(Upper(st.s)),
                   explanation  |-> DictGet(data.o, "explanation",
                                            Str("Could not determine verdict")),
                   correct_info |-> DictGet(data.o, "correct_info", Null),
                   confidence   |-> conf.n]

parse_verdict(content) == BuildVerdict(LoadData(StripFence(content)))

(***************************************************************************)
(* Inputs of verify_claims.                                                *)
(***************************************************************************)
LongText == Repeat("0123456789", 6)      \* 60 characters: longer than a label

ClaimPool(k) ==
    [id          |-> k,                  \* the object's identity
     text        |-> CASE k % 3 = 1 -> "Global GDP grew 3.1% in 2019"
                       [] k % 3 = 2 -> LongText
                       [] OTHER     -> "Unemployment fell to 4%",
     context     |-> "ctx",
     page_number |-> 1,
     claim_type  |-> CASE k % 3 = 1 -> "financial"
                       [] k % 3 = 2 -> "factual"
                       [] OTHER     -> "statistic"]

ClaimLists == {[k \in 1..n |-> ClaimPool(k)] : n \in 0..MaxClaims}

SearchErrors == {"timeout"}
EngineErrors == {"rate limit"}

Rec(k) == [title |-> "T" \o ToString(k), url |-> "http://s" \o ToString(k),
           content |-> "body " \o ToString(k)]
LongRec == [title |-> "TL", url |-> "http://long",
            content |-> Repeat("abcde", 50)]          \* 250 characters
BareRec == [score |-> 1]                 \* no title, no url, no content

SearchResponses ==
    { [query |-> "q"],                                       \* no "results"
      [query |-> "q", results |-> <<>>],
      [query |-> "q", results |-> <<Rec(1), LongRec>>],
      [query |-> "q", results |-> <<Rec(1), BareRec, Rec(3), Rec(4), Rec(5)>>] }

GoodVerdict ==
    Dict([status |-> Str("VERIFIED"), explanation |-> Str("matches"),
          correct_info |-> Null, confidence |-> Num(90)])
LowerVerdict == Dict([status |-> Str("inaccurate"), confidence |-> Num(40)])

EngineOutputs ==
    { <<JsonLine(GoodVerdict)>>,
      <<FenceLine, JsonLine(LowerVerdict), FenceLine>>,
      <<ProseLine, ProseObjLine(LowerVerdict), ProseLine>>,
      <<ProseLine>>,                                 \* garbage no json here
      <<JsonLine(List(<<>>))>>,                      \* []
      <<JsonLine(Dict([status |-> Num(100)]))>>,     \* {"status": 1}
      <<JsonLine(Dict([status |-> Str("FALSE"), confidence |-> Null]))>>,
      <<JsonLine(Dict([status |-> Str("VERIFIED"), confidence |-> Num(500)]))>>,
      <<JsonLine(Dict([status |-> Str("FALSE"), confidence |-> Num(-100)]))>> }

(***************************************************************************)
(* verify_claims and verify_single_claim                                   *)
(***************************************************************************)
VerificationResult(claim, status, explanation, correct_info, srcs, confidence) ==
    [claim |-> claim, status |-> status, explanation |-> explanation,
     correct_info |-> correct_info, sources |-> srcs,
     confidence |-> confidence]

\* the failure reported as a verdict: status False, confidence 0.5
FailedResultAsVerdict(claim, e) ==
    [claim |-> claim, status |-> FALSE_,
     explanation |-> Str("Verification failed: " \o e),
     correct_info |-> Null, sources |-> <<>>, confidence |-> 50]

\* lines 70-77: the result appended when verify_single_claim raised e
FailedResult(claim, e) ==
    VerificationResult(claim, PENDING, Str("Verification failed: " \o e),
                       Null, <<>>, 0)

\* lines 141-148: the result assembled from a parsed verdict
VerdictResult(claim, verdict, srcs) ==
    VerificationResult(claim, verdict.status, verdict.explanation,
                       verdict.correct_info, srcs, verdict.confidence)

\* line 65: the label handed to the callback
ProgressLabel(claim) == StrSlice(claim.text, 0, LabelLimit) \o Ellipsis

\* the variables of the other operations, while verify_claims runs
ExtractIdle ==
    /\ pages = <<>> /\ combined_len = 0 /\ chunks = <<>> /\ chunk_idx = 0
    /\ all_claims = <<>> /\ epc = "idle" /\ submitted = <<>> /\ emitted = <<>>
QueryIdle == q_claim = Null /\ q_query = "" /\ q_pc = "idle"
VerdictIdle == v_content = <<>> /\ v_verdict = Null /\ v_pc = "idle"
SourceIdle == s_record = Null /\ s_source = Null /\ s_pc = "idle"

VerifyInit ==
    /\ claims \in ClaimLists
    /\ progress_callback \in BOOLEAN
    /\ idx = 0
    /\ pc = "loop"
    /\ results = <<>>
    /\ search_results = ""
    /\ sources = <<>>
    /\ calls = <<>>
    /\ returned = Null

CurrentClaim == claims[idx + 1]

\* line 64: no callback was provided
SkipCallback ==
    /\ pc = "loop" /\ idx < Len(claims)
    /\ ~progress_callback
    /\ pc' = "try"
    /\ UNCHANGED <<claims, progress_callback, idx, results, search_results,
                   sources, calls, returned>>
    /\ UNCHANGED <<extractVars, queryVars, verdictVars, sourceVars>>

\* the callback handed the 0-based index
CallbackEventZeroBased ==
    [op |-> "callback", i |-> idx, current |-> idx, total |-> Len(claims),
     label |-> ProgressLabel(CurrentClaim)]

CallbackEvent ==
    [op |-> "callback", i |-> idx, current |-> idx + 1, total |-> Len(claims),
     label |-> ProgressLabel(CurrentClaim)]

\* lines 64-65: the callback is invoked and returns
CallbackReturns ==
    /\ pc = "loop" /\ idx < Len(claims)
    /\ progress_callback
    /\ calls' = Append(calls, CallbackEvent)
    /\ pc' = "try"
    /\ UNCHANGED <<claims, progress_callback, idx, results, search_results,
                   sources, returned>>
    /\ UNCHANGED <<extractVars, queryVars, verdictVars, sourceVars>>

\* the exception of the callback leaves verify_claims
RaiseEvent == [op |-> "raise", i |-> idx]

\* the exception of the callback is handled like a failure of the claim
CallbackRaisesCaught ==
    /\ pc = "loop" /\ idx < Len(claims)
    /\ progress_callback
    /\ calls' = calls \o <<CallbackEvent, RaiseEvent,
                           [op |-> "append", i |-> idx]>>
    /\ results' = Append(results, FailedResult(CurrentClaim, "callback failed"))
    /\ idx' = idx + 1
    /\ UNCHANGED <<claims, progress_callback, pc, search_results, sources,
                   returned>>
    /\ UNCHANGED <<extractVars, queryVars, verdictVars, sourceVars>>

\* lines 64-65: the callback is invoked and raises, outside the try block
CallbackRaises ==
    /\ pc = "loop" /\ idx < Len(claims)
    /\ progress_callback
    /\ calls' = calls \o <<CallbackEvent, RaiseEvent>>
    /\ pc' = "raised"
    /\ UNCHANGED <<claims, progress_callback, idx, results, search_results,
                   sources, returned>>
    /\ UNCHANGED <<extractVars, queryVars, verdictVars, sourceVars>>

\* line 102: the search call, with what it answered (Null when it raised)
SearchEvent(ok, response) ==
    [op |-> "search", i |-> idx, query |-> generate_search_query(CurrentClaim),
     ok |-> ok, response |-> response]
\* line 122: the engine call, with the text it answered (Null when it raised)
EngineEvent(ok, content) ==
    [op |-> "engine", i |-> idx, ok |-> ok, content |-> content]
AppendEvent == [op |-> "append", i |-> idx]

\* a failed claim is skipped instead of recorded
AppendResultUnlessFailed(r) ==
    /\ results' = IF r.status = PENDING THEN results ELSE Append(results, r)
    /\ idx' = idx + 1
    /\ pc' = "loop"
    /\ search_results' = ""
    /\ sources' = <<>>

\* lines 69, 72: results.append(r), then the next iteration
AppendResult(r) ==
    /\ results' = Append(results, r)
    /\ idx' = idx + 1
    /\ pc' = "loop"
    /\ search_results' = ""
    /\ sources' = <<>>

\* the failed search is tried a second time before the claim fails
SearchFailsRetried ==
    /\ pc = "try"
    /\ \E e \in SearchErrors :
         AppendResult(FailedResult(CurrentClaim, "Search failed: " \o e))
    /\ calls' = calls \o <<SearchEvent(FALSE, Null), SearchEvent(FALSE, Null),
                           AppendEvent>>
    /\ UNCHANGED <<claims, progress_callback, returned>>
    /\ UNCHANGED <<extractVars, queryVars, verdictVars, sourceVars>>

\* lines 101-112, 70-77: the search raises
SearchFails ==
    /\ pc = "try"
    /\ \E e \in SearchErrors :
         AppendResult(FailedResult(CurrentClaim, "Search failed: " \o e))
    /\ calls' = calls \o <<SearchEvent(FALSE, Null), AppendEvent>>
    /\ UNCHANGED <<claims, progress_callback, returned>>
    /\ UNCHANGED <<extractVars, queryVars, verdictVars, sourceVars>>

\* lines 101-109: the search returns
SearchReturns ==
    /\ pc = "try"
    /\ \E response \in SearchResponses :
         /\ search_results' = format_search_results(response)
         /\ sources' = extract_sources(response)
         /\ calls' = Append(calls, SearchEvent(TRUE, response))
    /\ pc' = "engine"
    /\ UNCHANGED <<claims, progress_callback, idx, results, returned>>
    /\ UNCHANGED <<extractVars, queryVars, verdictVars, sourceVars>>

\* lines 121-136, 150-151, 70-77: the engine call raises
EngineFails ==
    /\ pc = "engine"
    /\ \E e \in EngineErrors :
         AppendResult(FailedResult(CurrentClaim, "LLM analysis failed: " \o e))
    /\ calls' = calls \o <<EngineEvent(FALSE, Null), AppendEvent>>
    /\ UNCHANGED <<claims, progress_callback, returned>>
    /\ UNCHANGED <<extractVars, queryVars, verdictVars, sourceVars>>

\* lines 138-151: what verify_claims appends once the engine returned content
Adjudicated(claim, content, srcs) ==
    LET verdict == parse_verdict(content)
    IN  IF verdict.raised
        THEN FailedResult(claim, "LLM analysis failed: " \o verdict.msg)
        ELSE VerdictResult(claim, verdict, srcs)

\* lines 121-148: the engine call returns
EngineReturns ==
    /\ pc = "engine"
    /\ \E content \in EngineOutputs :
         /\ AppendResult(Adjudicated(CurrentClaim, content, sources))
         /\ calls' = calls \o <<EngineEvent(TRUE, content), AppendEvent>>
    /\ UNCHANGED <<claims, progress_callback, returned>>
    /\ UNCHANGED <<extractVars, queryVars, verdictVars, sourceVars>>

\* line 79
Return ==
    /\ pc = "loop" /\ idx >= Len(claims)
    /\ returned' = results
    /\ pc' = "returned"
    /\ UNCHANGED <<claims, progress_callback, idx, results, search_results,
                   sources, calls>>
    /\ UNCHANGED <<extractVars, queryVars, verdictVars, sourceVars>>

Next ==
    \/ SkipCallback
    \/ CallbackReturns
    \/ CallbackRaises
    \/ SearchFails
    \/ SearchReturns
    \/ EngineFails
    \/ EngineReturns
    \/ Return

Init == VerifyInit /\ ExtractIdle /\ QueryIdle /\ VerdictIdle /\ SourceIdle

Spec == Init /\ [][Next]_vars

(***************************************************************************)
(* extract_claims (src/src/claim_extractor.py).  A page is modelled by its *)
(* number, the length of its text and whether the text is blank; the       *)
(* combined buffer by its length; a chunk combined_text[a:b] by the        *)
(* offsets [start, stop) it holds.                                         *)
(***************************************************************************)
ChunkThreshold == 12000
ChunkStride == 10000
ChunkSize == 12000

\* len(f"\n\n--- Page {page_num} ---\n\n")
DelimiterLen(page_num) ==
    Len("\n\n--- Page " \o ToString(page_num) \o " ---\n\n")

\* page texts: a blank page, and lengths that put the buffer around the
\* threshold and the strides once the 18 delimiter characters are added
PageTextLens == {0, 8482, 11982, 11983, 12982}

PageLists ==
    UNION { [1..n -> PageTextLens] : n \in 1..MaxPages }

\* lines 57-66: len(combined_text) after the pages up to k were appended
RECURSIVE CombinedLen(_, _)
CombinedLen(pl, k) ==
    IF k = 0 THEN 0
    ELSE CombinedLen(pl, k - 1)
         + (IF pl[k] = 0 THEN 0 ELSE DelimiterLen(k) + pl[k])

\* a chunk that loses the character before the next stride
MakeChunkOffByOne(i, L) ==
    [start |-> i, stop |-> Min(i + ChunkStride - 1, L)]

\* line 77: combined_text[i:i+12000]
MakeChunk(i, L) == [start |-> i, stop |-> Min(i + ChunkSize, L)]

\* line 76: range(0, len(combined_text), 10000), in order
StrideStarts(L) ==
    [k \in 1..((L + ChunkStride - 1) \div ChunkStride) |-> (k - 1) * ChunkStride]

\* lines 73-80
SplitChunks(L) ==
    IF L > ChunkThreshold
    THEN LET starts == StrideStarts(L)
         IN  [k \in 1..Len(starts) |-> MakeChunk(starts[k], L)]
    ELSE <<[start |-> 0, stop |-> L]>>

(***************************************************************************)
(* parse_claims_json.  The engine's text is a sequence of lines, as for    *)
(* parse_verdict, with two more kinds of line.                             *)
(***************************************************************************)
FenceJsonLine == [kind |-> "fence_json"]       \* a line ```json
ProseArrLine(v) == [kind |-> "prose_arr", val |-> v]  \* prose around [...]

IsFence(line) == line.kind \in {"fence", "fence_json"}

\* lines 150-160
StripClaimsFence(lines) ==
    LET opens == {i \in 1..Len(lines) : lines[i].kind = "fence_json"}
    IN  IF opens # {}
        THEN LET a == CHOOSE i \in opens : \A j \in opens : i <= j
                 closes == {i \in (a + 1)..Len(lines) : IsFence(lines[i])}
             IN  IF closes # {}
                 THEN LET b == CHOOSE i \in closes : \A j \in closes : i <= j
                      IN  ListSlice(lines, a, b - 1)
                 ELSE lines
        ELSE IF lines # <<>> /\ lines[1].kind = "fence"
        THEN IF lines[Len(lines)].kind = "fence"
             THEN ListSlice(lines, 1, Len(lines) - 1)
             ELSE ListSlice(lines, 1, Len(lines))
        ELSE lines

HasArray(line) ==
    \/ line.kind = "prose_arr"
    \/ line.kind = "json" /\ line.val.t = "list"

\* lines 164-186
parse_claims_json(content) ==
    LET lines == StripClaimsFence(content)
        direct == JsonLoads(lines)
        arrays == {i \in 1..Len(lines) : HasArray(lines[i])}
    IN  IF direct.ok
        THEN IF direct.val.t = "list" THEN direct.val.items ELSE <<>>
        ELSE IF Cardinality(arrays) = 1
        THEN lines[CHOOSE i \in arrays : TRUE].val.items
        ELSE <<>>

\* truth value of a Python value
Truthy(v) ==
    CASE v.t = "str"  -> v.s # ""
      [] v.t = "num"  -> v.n # 0
      [] v.t = "bool" -> v.b
      [] v.t = "null" -> FALSE
      [] v.t = "list" -> v.items # <<>>
      [] v.t = "dict" -> DOMAIN v.o # {}

\* lines 116-121
MakeClaim(claim_data) ==
    [text        |-> DictGet(claim_data, "claim", Str("")),
     context     |-> DictGet(claim_data, "context", Str("")),
     page_number |-> 1,
     claim_type  |-> DictGet(claim_data, "claim_type", Str("factual"))]

\* lines 115-123, 125: the claims appended for one chunk; an entry that is
\* no dict raises, which ends the chunk and keeps what was appended
RECURSIVE AcceptedClaims(_)
AcceptedClaims(claims_data) ==
    IF claims_data = <<>> THEN <<>>
    ELSE LET entry == Head(claims_data)
         IN  IF entry.t # "dict" THEN <<>>
             ELSE (IF Truthy(MakeClaim(entry.o).text)
                   THEN <<MakeClaim(entry.o)>> ELSE <<>>)
                  \o AcceptedClaims(Tail(claims_data))

\* what the engine may answer for chunk k: its claims are named after the
\* chunk and the position in the answer
Entry(k, j) ==
    Dict([claim |-> Str("chunk " \o ToString(k) \o " claim " \o ToString(j)),
          context |-> Str("ctx"), claim_type |-> Str("statistic")])
UntypedEntry(k, j) ==
    Dict([claim |-> Str("chunk " \o ToString(k) \o " claim " \o ToString(j))])
EmptyEntry == Dict([claim |-> Str(""), context |-> Str("ctx")])

ExtractOutputs(k) ==
    { <<FenceJsonLine, JsonLine(List(<<Entry(k, 1), UntypedEntry(k, 2)>>)),
        FenceLine>>,
      <<JsonLine(List(<<Entry(k, 1), Num(700), Entry(k, 3)>>))>>,
      <<ProseLine, ProseArrLine(List(<<EmptyEntry, Entry(k, 2)>>))>>,
      <<JsonLine(Dict([claim |-> Str("not a list")]))>> }

ExtractInit ==
    /\ pages \in PageLists
    /\ combined_len = 0
    /\ chunks = <<>>
    /\ chunk_idx = 0
    /\ all_claims = <<>>
    /\ epc = "start"
    /\ submitted = <<>>
    /\ emitted = <<>>

\* lines 57-70: no page holds text
NoText ==
    /\ epc = "start"
    /\ CombinedLen(pages, Len(pages)) = 0
    /\ epc' = "returned"
    /\ UNCHANGED <<pages, combined_len, chunks, chunk_idx, all_claims,
                   submitted, emitted>>
    /\ UNCHANGED <<verifyVars, queryVars, verdictVars, sourceVars>>

\* lines 57-82: the buffer is built and split
Split ==
    /\ epc = "start"
    /\ CombinedLen(pages, Len(pages)) > 0
    /\ combined_len' = CombinedLen(pages, Len(pages))
    /\ chunks' = SplitChunks(combined_len')
    /\ epc' = "loop"
    /\ UNCHANGED <<pages, chunk_idx, all_claims, submitted, emitted>>
    /\ UNCHANGED <<verifyVars, queryVars, verdictVars, sourceVars>>

\* the loop stops at the first chunk that fails
AfterChunkFailureStop == Len(chunks)

\* lines 125-129: `continue` after a failed chunk
AfterChunkFailure == chunk_idx + 1

\* lines 84-102, 125-129: the engine call raises
ChunkEngineFails ==
    /\ epc = "loop" /\ chunk_idx < Len(chunks)
    /\ submitted' = Append(submitted, chunk_idx)
    /\ emitted' = Append(emitted, [ok |-> FALSE, content |-> <<>>])
    /\ chunk_idx' = AfterChunkFailure
    /\ UNCHANGED <<pages, combined_len, chunks, all_claims, epc>>
    /\ UNCHANGED <<verifyVars, queryVars, verdictVars, sourceVars>>

\* lines 84-129: the engine call returns
ChunkEngineReturns ==
    /\ epc = "loop" /\ chunk_idx < Len(chunks)
    /\ \E content \in ExtractOutputs(chunk_idx) :
         LET claims_data == parse_claims_json(content)
             raised == \E j \in 1..Len(claims_data) : claims_data[j].t # "dict"
         IN  /\ all_claims' = all_claims \o AcceptedClaims(claims_data)
             /\ emitted' = Append(emitted, [ok |-> TRUE, content |-> content])
             /\ chunk_idx' = IF raised THEN AfterChunkFailure ELSE chunk_idx + 1
    /\ submitted' = Append(submitted, chunk_idx)
    /\ UNCHANGED <<pages, combined_len, chunks, epc>>
    /\ UNCHANGED <<verifyVars, queryVars, verdictVars, sourceVars>>

\* line 131
ExtractReturn ==
    /\ epc = "loop" /\ chunk_idx >= Len(chunks)
    /\ epc' = "returned"
    /\ UNCHANGED <<pages, combined_len, chunks, chunk_idx, all_claims,
                   submitted, emitted>>
    /\ UNCHANGED <<verifyVars, queryVars, verdictVars, sourceVars>>

ExtractNext ==
    \/ NoText
    \/ Split
    \/ ChunkEngineFails
    \/ ChunkEngineReturns
    \/ ExtractReturn

\* the variables of verify_claims, while another operation runs
VerifyIdle ==
    /\ claims = <<>> /\ progress_callback = FALSE /\ idx = 0 /\ pc = "idle"
    /\ results = <<>> /\ search_results = "" /\ sources = <<>>
    /\ calls = <<>> /\ returned = Null

InitExtract ==
    ExtractInit /\ VerifyIdle /\ QueryIdle /\ VerdictIdle /\ SourceIdle

SpecExtract == InitExtract /\ [][ExtractNext]_vars

(***************************************************************************)
(* generate_search_query on its own: claims of every type, with texts      *)
(* around the 200-character limit.                                         *)
(***************************************************************************)
TextOfLen(n) == IF n = 0 THEN "" ELSE SubSeq(Repeat("abcdefg", 40), 1, n)

TextLens ==
    {0, 1, 50, 150, MaxTextLen}
    \cup {n \in (QueryLimit - 2)..(QueryLimit + 2) : n <= MaxTextLen}

ClaimTypes == {"financial", "statistic", "factual", "date", "technical", ""}

QueryClaims ==
    {[text |-> TextOfLen(n), context |-> "ctx", page_number |-> 1,
      claim_type |-> ty] : n \in TextLens, ty \in ClaimTypes}

QueryInit == q_claim \in QueryClaims /\ q_query = "" /\ q_pc = "call"

\* lines 154-167
CallQuery ==
    /\ q_pc = "call"
    /\ q_query' = generate_search_query(q_claim)
    /\ q_pc' = "done"
    /\ UNCHANGED q_claim
    /\ UNCHANGED <<verifyVars, extractVars, verdictVars, sourceVars>>

QueryNext == CallQuery

InitQuery ==
    QueryInit /\ VerifyIdle /\ ExtractIdle /\ VerdictIdle /\ SourceIdle

SpecQuery == InitQuery /\ [][QueryNext]_vars

(***************************************************************************)
(* parse_verdict on its own: objects with every spelling of the status,    *)
(* with and without the other fields, plain, fenced and inside prose, and  *)
(* texts holding no object.                                                *)
(***************************************************************************)
VerdictStatuses ==
    {"VERIFIED", "verified", "Verified", "INACCURATE", "inaccurate",
     "Inaccurate", "FALSE", "false", " verified ", "INACCURATE ", "maybe", ""}

VerdictObjects ==
    {Dict([status |-> Str(st)]) : st \in VerdictStatuses}
    \cup {Dict([status |-> Str(st), explanation |-> Str("why"),
                correct_info |-> Str("fix"), confidence |-> Num(40)])
          : st \in VerdictStatuses}
    \cup {Dict([explanation |-> Str("why")]), Dict([confidence |-> Num(40)])}

VerdictTexts ==
    {<<JsonLine(v)>> : v \in VerdictObjects}
    \cup {<<FenceLine, JsonLine(v), FenceLine>> : v \in VerdictObjects}
    \cup {<<ProseLine, ProseObjLine(v), ProseLine>> : v \in VerdictObjects}
    \cup { <<ProseLine>>,                            \* garbage no json here
           <<FenceLine, ProseLine, FenceLine>>,
           <<JsonLine(List(<<>>))>>,
           <<JsonLine(Dict([status |-> Null]))>> }

VerdictInit == v_content \in VerdictTexts /\ v_verdict = Null /\ v_pc = "call"

\* lines 203-241
CallParseVerdict ==
    /\ v_pc = "call"
    /\ v_verdict' = parse_verdict(v_content)
    /\ v_pc' = "done"
    /\ UNCHANGED v_content
    /\ UNCHANGED <<verifyVars, extractVars, queryVars, sourceVars>>

VerdictNext == CallParseVerdict

InitVerdict ==
    VerdictInit /\ VerifyIdle /\ ExtractIdle /\ QueryIdle /\ SourceIdle

SpecVerdict == InitVerdict /\ [][VerdictNext]_vars

(***************************************************************************)
(* The Source made of one search record: records with and without title,   *)
(* url and content, the content shorter than, as long as and longer than   *)
(* the snippet limit.                                                      *)
(***************************************************************************)
ContentLens ==
    {0, 1, 50, 100, 150, SnippetLimit - 3, SnippetLimit - 2, SnippetLimit - 1,
     SnippetLimit, SnippetLimit + 1, SnippetLimit + 2, SnippetLimit + 3,
     MaxTextLen}

TitleParts == {<<>>, [title |-> "T"]}
UrlParts == {<<>>, [url |-> "http://s"]}
ContentParts == {<<>>} \cup {[content |-> TextOfLen(n)] : n \in ContentLens}

\* dict union of the parts of a record
Merge(f, g) ==
    [k \in DOMAIN f \cup DOMAIN g |-> IF k \in DOMAIN f THEN f[k] ELSE g[k]]

SourceRecords ==
    {Merge([score |-> 1], Merge(t, Merge(u, c))) :
        t \in TitleParts, u \in UrlParts, c \in ContentParts}

SourceInit == s_record \in SourceRecords /\ s_source = Null /\ s_pc = "call"

\* lines 194-198, for one record
CallMakeSource ==
    /\ s_pc = "call"
    /\ s_source' = MakeSource(s_record)
    /\ s_pc' = "done"
    /\ UNCHANGED s_record
    /\ UNCHANGED <<verifyVars, extractVars, queryVars, verdictVars>>

SourceNext == CallMakeSource

InitSource ==
    SourceInit /\ VerifyIdle /\ ExtractIdle /\ QueryIdle /\ VerdictIdle

SpecSource == InitSource /\ [][SourceNext]_vars

(***************************************************************************)
(* Reading the log of a verify_claims run.                                 *)
(***************************************************************************)
EventsOf(op, i) == {k \in DOMAIN calls : calls[k].op = op /\ calls[k].i = i}

SearchReturned(i) == \E k \in EventsOf("search", i) : calls[k].ok
EngineReturned(i) == \E k \in EventsOf("engine", i) : calls[k].ok

\* the adjudication of claim i raised: the search, the engine call or the
\* handling of the engine's text
AttemptRaised(i) ==
    \/ \E k \in EventsOf("search", i) : ~calls[k].ok
    \/ \E k \in EventsOf("engine", i) : ~calls[k].ok
    \/ \E k \in EventsOf("engine", i) :
          calls[k].ok /\ parse_verdict(calls[k].content).raised

\* the adjudication of claim i ran to its end without raising
AttemptSucceeded(i) ==
    SearchReturned(i) /\ EngineReturned(i) /\ ~AttemptRaised(i)

ResponseOf(i) == calls[CHOOSE k \in EventsOf("search", i) : TRUE].response
RecordsOf(response) ==
    IF "results" \in DOMAIN response THEN response.results ELSE <<>>

FailurePrefix == "Verification failed: "

(***************************************************************************)
(* C1: verify_claims returns one result per claim, in input order:         *)
(* len(results) == len(claims) and results[i].claim is claims[i], whatever *)
(* the outcome of each claim (search fails, engine fails, the verdict      *)
(* cannot be parsed, all succeed).                                         *)
(***************************************************************************)
C1_OneResultPerClaimInOrder ==
    /\ Len(results) = idx
    /\ \A i \in 1..Len(results) : results[i].claim = claims[i]
    /\ pc = "returned" =>
         /\ Len(returned) = Len(claims)
         /\ \A i \in 1..Len(claims) : returned[i].claim = claims[i]

C1_Witness ==
    /\ pc = "returned" /\ Len(claims) = 2
    /\ AttemptRaised(0) /\ EngineReturned(0)
    /\ AttemptSucceeded(1)

(***************************************************************************)
(* C2: when the adjudication of claim i raises, result i is Pending with   *)
(* explanation "Verification failed: <cause>", confidence 0.0 and no       *)
(* sources, and the batch goes on: the run is abandoned only by an         *)
(* exception of the progress callback itself, and a run that returns has   *)
(* attempted every claim; if the search raised for every claim, every      *)
(* result is Pending with confidence 0.0.                                  *)
(***************************************************************************)
C2_FailureIsolated ==
    /\ \A i \in 0..(Len(results) - 1) :
         AttemptRaised(i) =>
           LET r == results[i + 1]
           IN  /\ r.status = PENDING
               /\ r.explanation.t = "str"
               /\ StartsWith(r.explanation.s, FailurePrefix)
               /\ Len(r.explanation.s) > Len(FailurePrefix)
               /\ r.confidence = 0
               /\ r.sources = <<>>
    /\ (calls # <<>> /\ calls[Len(calls)].op = "append") =>
         pc \in {"loop", "try", "returned"} /\ idx = calls[Len(calls)].i + 1
    /\ pc = "raised" => calls[Len(calls)].op = "raise"
    /\ pc = "returned" =>
         /\ \A i \in 0..(Len(claims) - 1) : EventsOf("search", i) # {}
         /\ (\A i \in 0..(Len(claims) - 1) : ~SearchReturned(i)) =>
               \A i \in 1..Len(returned) :
                  returned[i].status = PENDING /\ returned[i].confidence = 0

C2_Witness ==
    /\ pc = "returned" /\ Len(claims) = 2
    /\ ~SearchReturned(0)
    /\ AttemptSucceeded(1) /\ returned[2].status = VERIFIED

(***************************************************************************)
(* C3 (as stated): the callback invocation for claim i happens after the   *)
(* adjudication attempt of claim i has finished.                           *)
(***************************************************************************)
C3_CallbackAfterAttempt ==
    \A k \in DOMAIN calls :
       calls[k].op = "callback" =>
          \E j \in 1..(k - 1) :
             calls[j].op = "append" /\ calls[j].i = calls[k].i

(***************************************************************************)
(* C3 (amended): when a callback is provided, it is invoked for claim i    *)
(* with (i+1, len(claims), first 50 characters of the text + "...") before *)
(* the adjudication attempt of claim i starts and after everything done    *)
(* for the earlier claims, at most once per claim, and exactly once per    *)
(* claim in a run that returns.                                            *)
(***************************************************************************)
C3_CallbackBeforeAttempt ==
    progress_callback =>
      /\ \A k \in DOMAIN calls :
           calls[k].op = "callback" =>
             LET i == calls[k].i
                 text == claims[i + 1].text
             IN  /\ calls[k].current = i + 1
                 /\ calls[k].total = Len(claims)
                 /\ calls[k].label =
                      (IF Len(text) <= 50 THEN text ELSE SubSeq(text, 1, 50))
                      \o "..."
                 /\ \A j \in 1..(k - 1) : calls[j].i < i
                 /\ i > 0 => \E j \in 1..(k - 1) :
                                calls[j].op = "append" /\ calls[j].i = i - 1
      /\ \A k \in DOMAIN calls :
           calls[k].op = "search" =>
             \E j \in 1..(k - 1) :
                calls[j].op = "callback" /\ calls[j].i = calls[k].i
      /\ \A i \in 0..(Len(claims) - 1) :
           Cardinality(EventsOf("callback", i)) <= 1
      /\ pc = "returned" =>
           \A i \in 0..(Len(claims) - 1) :
              Cardinality(EventsOf("callback", i)) = 1

C3_Witness ==
    /\ pc = "returned" /\ progress_callback /\ Len(claims) = 2
    /\ AttemptRaised(0) /\ AttemptSucceeded(1)
    /\ Len(claims[2].text) > 50

(***************************************************************************)
(* C4 (as stated): a claim whose search call and engine call both returned *)
(* gets status Verified, Inaccurate or False, never Pending, whatever text *)
(* the engine returned.                                                    *)
(***************************************************************************)
C4_VerdictNeverPending ==
    \A i \in 0..(Len(results) - 1) :
       (SearchReturned(i) /\ EngineReturned(i)) =>
          results[i + 1].status \in {VERIFIED, INACCURATE, FALSE_}

(***************************************************************************)
(* C5 (as stated): every result returned by verify_claims has a confidence *)
(* within [0,1] (0..100 hundredths).                                       *)
(***************************************************************************)
C5_ConfidenceInUnitInterval ==
    pc = "returned" =>
       \A i \in 1..Len(returned) :
          returned[i].confidence >= 0 /\ returned[i].confidence <= 100

(***************************************************************************)
(* C6: the sources of a successfully adjudicated claim are the first       *)
(* min(3, n) of the n records the search returned, one Source per record   *)
(* in the provider's order, whatever the engine answered.                  *)
(***************************************************************************)
C6_SourcesAreFirstThreeRecords ==
    \A i \in 0..(Len(results) - 1) :
       AttemptSucceeded(i) =>
          LET recs == RecordsOf(ResponseOf(i))
              srcs == results[i + 1].sources
          IN  /\ Len(srcs) = (IF Len(recs) < 3 THEN Len(recs) ELSE 3)
              /\ \A j \in 1..Len(srcs) :
                   /\ srcs[j].title =
                        (IF "title" \in DOMAIN recs[j] THEN recs[j].title
                         ELSE "Unknown")
                   /\ srcs[j].url =
                        (IF "url" \in DOMAIN recs[j] THEN recs[j].url ELSE "")
                   /\ "content" \in DOMAIN recs[j] =>
                        StartsWith(srcs[j].snippet,
                                   IF Len(recs[j].content) <= 200
                                   THEN recs[j].content
                                   ELSE SubSeq(recs[j].content, 1, 200))

C6_Witness ==
    /\ pc = "returned" /\ Len(claims) = 2
    /\ AttemptSucceeded(0) /\ Len(RecordsOf(ResponseOf(0))) = 5
    /\ Len(returned[1].sources) = 3
    /\ AttemptSucceeded(1) /\ Len(RecordsOf(ResponseOf(1))) = 2
    /\ Len(returned[2].sources) = 2

(***************************************************************************)
(* C7: for a search response whose result list is empty or missing, the    *)
(* evidence block is exactly "No search results found." and the source     *)
(* list is empty; the evidence block is never empty, and when there are    *)
(* results it lists them as Source 1..n in the provider's order.           *)
(***************************************************************************)
Positions(s, sub) ==
    {p \in 1..(Len(s) - Len(sub) + 1) : SubSeq(s, p, p + Len(sub) - 1) = sub}

EntryHeader(k, rec) ==
    "Source " \o ToString(k) \o ": "
    \o (IF "title" \in DOMAIN rec THEN rec.title ELSE "Unknown") \o "\n"

C7_EvidenceBlock ==
    pc = "engine" =>
       LET recs == RecordsOf(ResponseOf(idx))
           at(k) == Positions(search_results, EntryHeader(k, recs[k]))
       IN  /\ search_results # ""
           /\ recs = <<>> =>
                search_results = "No search results found." /\ sources = <<>>
           /\ recs # <<>> =>
                /\ Cardinality(Positions(search_results, "Source ")) = Len(recs)
                /\ \A k \in 1..Len(recs) : Cardinality(at(k)) = 1
                /\ \A k \in 1..(Len(recs) - 1) :
                     \A p \in at(k) : \A q \in at(k + 1) : p < q

C7_Witness ==
    /\ pc = "engine" /\ idx = 1
    /\ Len(RecordsOf(ResponseOf(0))) = 0 /\ "results" \notin DOMAIN ResponseOf(0)
    /\ Len(RecordsOf(ResponseOf(1))) = 5

(***************************************************************************)
(* C8: a buffer of length L > 12000 is split into chunks starting at       *)
(* offsets 0, 10000, 20000, ..., each of at most 12000 characters, every   *)
(* offset 0..L-1 lies in a chunk and consecutive chunks leave no gap; a    *)
(* buffer of L <= 12000 characters is one chunk, the whole buffer.         *)
(***************************************************************************)
C8_ChunksCoverBuffer ==
    (epc = "loop" /\ chunk_idx = 0) =>
       LET L == combined_len
       IN  /\ L > 12000 =>
                /\ \A k \in 1..Len(chunks) :
                     /\ chunks[k].start = (k - 1) * 10000
                     /\ chunks[k].start < chunks[k].stop
                     /\ chunks[k].stop - chunks[k].start <= 12000
                     /\ chunks[k].stop <= L
                /\ \A k \in 1..(Len(chunks) - 1) :
                     chunks[k + 1].start <= chunks[k].stop
                /\ \A o \in 0..(L - 1) :
                     \E k \in 1..Len(chunks) :
                        chunks[k].start <= o /\ o < chunks[k].stop
           /\ L <= 12000 => chunks = <<[start |-> 0, stop |-> L]>>

C8_Witness ==
    /\ epc = "loop" /\ chunk_idx = 0
    /\ combined_len = 25000 /\ Len(chunks) = 3

(***************************************************************************)
(* C9: a failure while a chunk is processed (the engine call raises, or an *)
(* entry of the answer cannot be handled) does not stop extract_claims:    *)
(* every chunk is submitted to the engine exactly once, in chunk order,    *)
(* and the returned list holds the claims in chunk order and, within a     *)
(* chunk, in the order the engine emitted them.                            *)
(***************************************************************************)
\* the entries of the array the engine emitted for the chunk at position k
EmittedEntries(k) ==
    LET lines == emitted[k].content
        arrays == {i \in 1..Len(lines) :
                     lines[i].kind \in {"json", "prose_arr"}
                     /\ lines[i].val.t = "list"}
    IN  IF arrays = {} THEN <<>>
        ELSE lines[CHOOSE i \in arrays : TRUE].val.items

\* entry j of chunk k is a claim, and no entry before it breaks the chunk
Extractable(k, j) ==
    /\ \A h \in 1..j : EmittedEntries(k)[h].t = "dict"
    /\ "claim" \in DOMAIN EmittedEntries(k)[j].o
    /\ EmittedEntries(k)[j].o.claim # Str("")

Origins ==
    UNION { {<<k, j>> : j \in {h \in 1..Len(EmittedEntries(k)) : Extractable(k, h)}}
            : k \in 1..Len(emitted) }

Before(a, b) == a[1] < b[1] \/ (a[1] = b[1] /\ a[2] < b[2])

OriginOf(claim) ==
    CHOOSE o \in Origins : EmittedEntries(o[1])[o[2]].o.claim = claim.text

ChunkFailed(k) ==
    \/ ~emitted[k].ok
    \/ \E j \in 1..Len(EmittedEntries(k)) : EmittedEntries(k)[j].t # "dict"

C9_ChunkFailureIsolated ==
    /\ submitted = [k \in 1..Len(submitted) |-> k - 1]
    /\ \A p \in 1..Len(all_claims) :
         \E o \in Origins : EmittedEntries(o[1])[o[2]].o.claim = all_claims[p].text
    /\ \A p \in 1..(Len(all_claims) - 1) :
         Before(OriginOf(all_claims[p]), OriginOf(all_claims[p + 1]))
    /\ \A o \in Origins :
         \E p \in 1..Len(all_claims) : OriginOf(all_claims[p]) = o
    /\ (epc = "returned" /\ combined_len > 0) =>
         /\ Len(submitted) = Len(chunks)
         /\ Len(emitted) = Len(chunks)

C9_Witness ==
    /\ epc = "returned" /\ Len(chunks) = 3
    /\ ~emitted[1].ok
    /\ emitted[2].ok /\ ChunkFailed(2)
    /\ Len(all_claims) = 3
    /\ OriginOf(all_claims[1]) = <<2, 1>>
    /\ OriginOf(all_claims[3]) = <<3, 2>>

(***************************************************************************)
(* C10: generate_search_query returns the first min(len(text), 200)        *)
(* characters of the claim text, followed by the recency suffix when the   *)
(* claim_type is "financial" or "statistic" and by nothing otherwise; the  *)
(* suffix is appended after the cut, so it is whole.                       *)
(***************************************************************************)
C10_QueryIsCutTextPlusSuffix ==
    q_pc = "done" =>
       LET text == q_claim.text
           n == IF Len(text) < 200 THEN Len(text) ELSE 200
           suffix == CASE q_claim.claim_type = "financial" ->
                             " current data 2024 2025"
                        [] q_claim.claim_type = "statistic" ->
                             " latest statistics 2024"
                        [] OTHER -> ""
       IN  /\ Len(q_query) = n + Len(suffix)
           /\ \A p \in 1..n : SubSeq(q_query, p, p) = SubSeq(text, p, p)
           /\ suffix # "" => SubSeq(q_query, n + 1, Len(q_query)) = suffix

C10_Witness ==
    /\ q_pc = "done"
    /\ Len(q_claim.text) = 250 /\ q_claim.claim_type = "financial"
    /\ Len(q_query) = 223

(***************************************************************************)
(* Reading the text handed to parse_verdict.                               *)
(***************************************************************************)
\* the lines of the text that hold a JSON object
ObjectLines(lines) ==
    {i \in 1..Len(lines) :
        lines[i].kind \in {"json", "prose_obj"} /\ lines[i].val.t = "dict"}

\* the text holds no JSON value at all
NoJson(lines) == \A i \in 1..Len(lines) : lines[i].kind \in {"fence", "prose"}

\* the fields of the one object the text holds
ObjectOf(lines) == lines[CHOOSE i \in ObjectLines(lines) : TRUE].val.o

\* the object's status is a string or absent, its confidence a number or absent
WellTyped(o) ==
    /\ "status" \in DOMAIN o => o.status.t = "str"
    /\ "confidence" \in DOMAIN o => o.confidence.t = "num"

RECURSIVE TrimSpaces(_)
TrimSpaces(s) ==
    IF s = "" THEN ""
    ELSE IF SubSeq(s, 1, 1) = " " THEN TrimSpaces(SubSeq(s, 2, Len(s)))
    ELSE IF SubSeq(s, Len(s), Len(s)) = " "
    THEN TrimSpaces(SubSeq(s, 1, Len(s) - 1))
    ELSE s

\* the status a spelling stands for, whatever its case
StatusOfSpelling(st) ==
    CASE st \in {"VERIFIED", "verified", "Verified"}       -> "Verified"
      [] st \in {"INACCURATE", "inaccurate", "Inaccurate"} -> "Inaccurate"
      [] OTHER                                             -> "False"

VerdictDefaults(verdict, o) ==
    /\ "explanation" \notin DOMAIN o =>
          verdict.explanation = Str("Could not determine verdict")
    /\ "explanation" \in DOMAIN o => verdict.explanation = o.explanation
    /\ "confidence" \notin DOMAIN o => verdict.confidence = 50
    /\ "confidence" \in DOMAIN o => verdict.confidence = o.confidence.n

(***************************************************************************)
(* C11: parse_verdict maps the status case-insensitively and   *)
(* after trimming surrounding whitespace (" verified " is Verified); an    *)
(* unrecognized or missing status and a text with no JSON object give      *)
(* status False, with explanation "Could not determine verdict" and        *)
(* confidence 0.5 when those fields are absent.                            *)
(***************************************************************************)
C11_StatusTrimmedAndCaseInsensitive ==
    v_pc = "done" =>
       /\ NoJson(v_content) =>
            /\ ~v_verdict.raised
            /\ v_verdict.status = "False"
            /\ VerdictDefaults(v_verdict, <<>>)
       /\ (ObjectLines(v_content) # {} /\ WellTyped(ObjectOf(v_content))) =>
            LET o == ObjectOf(v_content)
            IN  /\ ~v_verdict.raised
                /\ v_verdict.status =
                     (IF "status" \in DOMAIN o
                      THEN StatusOfSpelling(TrimSpaces(o.status.s))
                      ELSE "False")
                /\ VerdictDefaults(v_verdict, o)

(***************************************************************************)
(* C12: the snippet of a Source equals the record's content unchanged when *)
(* the content has at most 200 characters, and its first 200 characters    *)
(* followed by the ellipsis marker when it is longer; a record with        *)
(* missing title, url or content yields "Unknown", "" and "".              *)
(***************************************************************************)
C12_EllipsisOnlyWhenTruncated ==
    s_pc = "done" =>
       LET content == IF "content" \in DOMAIN s_record
                      THEN s_record.content ELSE ""
       IN  /\ s_source.title =
                (IF "title" \in DOMAIN s_record
                 THEN s_record.title ELSE "Unknown")
           /\ s_source.url =
                (IF "url" \in DOMAIN s_record THEN s_record.url ELSE "")
           /\ s_source.snippet =
                (IF Len(content) <= 200 THEN content
                 ELSE SubSeq(content, 1, 200) \o "...")

(***************************************************************************)
(* C13: for every claim that verify_claims adjudicates, the search         *)
(* provider is called exactly once and the reasoning engine at most once,  *)
(* the engine only after that claim's search returned successfully; a      *)
(* failed call is never retried, and no external call for claim i+1 starts *)
(* before the result of claim i has been appended.  A run that returns has *)
(* adjudicated every claim.                                                *)
(***************************************************************************)
ExternalCalls(i) == EventsOf("search", i) \cup EventsOf("engine", i)

C13_OneSearchAtMostOneEngine ==
    /\ \A i \in 0..(Len(claims) - 1) :
         /\ Cardinality(EventsOf("search", i)) <= 1
         /\ Cardinality(EventsOf("engine", i)) <= 1
         /\ Cardinality(EventsOf("append", i)) <= 1
         /\ EventsOf("append", i) # {} =>
               Cardinality(EventsOf("search", i)) = 1
         /\ \A k \in EventsOf("engine", i) :
               \E j \in EventsOf("search", i) : j < k /\ calls[j].ok
         /\ \A k \in ExternalCalls(i) :
               /\ \A j \in EventsOf("append", i) : k < j
               /\ i > 0 => \E j \in EventsOf("append", i - 1) : j < k
    /\ pc = "returned" =>
         \A i \in 0..(Len(claims) - 1) :
            Cardinality(EventsOf("search", i)) = 1

C13_Witness ==
    /\ pc = "returned" /\ Len(claims) = 2
    /\ EventsOf("search", 0) # {} /\ ~SearchReturned(0)
    /\ EventsOf("engine", 0) = {}
    /\ SearchReturned(1) /\ EventsOf("engine", 1) # {}

(***************************************************************************)
(* C14: an exception thrown by the progress callback is not caught by the  *)
(* per-claim failure isolation: it propagates out of verify_claims, the    *)
(* claim for which it was raised and all later claims are never            *)
(* adjudicated, and no result list, not even the results accumulated so    *)
(* far, is returned.                                                       *)
(***************************************************************************)
C14_CallbackExceptionPropagates ==
    /\ pc = "raised" <=> (calls # <<>> /\ calls[Len(calls)].op = "raise")
    /\ \A k \in DOMAIN calls :
         calls[k].op = "raise" =>
           /\ k = Len(calls)
           /\ k > 1 /\ calls[k - 1].op = "callback"
           /\ calls[k - 1].i = calls[k].i
           /\ returned = Null
           /\ Len(results) = calls[k].i
           /\ \A j \in calls[k].i..(Len(claims) - 1) :
                 /\ ExternalCalls(j) = {}
                 /\ EventsOf("append", j) = {}

C14_Witness ==
    /\ pc = "raised" /\ Len(claims) = 2
    /\ calls[Len(calls)] = [op |-> "raise", i |-> 1]
    /\ Len(results) = 1 /\ returned = Null

(***************************************************************************)
(* C15: for every combined buffer longer than 12000 characters, every      *)
(* chunk after the first contains at least one buffer offset that no       *)
(* earlier chunk contains, so that no chunk handed to the engine is        *)
(* entirely covered by its predecessors.                                   *)
(***************************************************************************)
C15_EveryChunkAddsOffsets ==
    (epc = "loop" /\ combined_len > 12000) =>
       \A k \in 2..Len(chunks) :
          \E o \in chunks[k].start..(chunks[k].stop - 1) :
             \A j \in 1..(k - 1) :
                ~(chunks[j].start <= o /\ o < chunks[j].stop)

====
